---- MODULE Spec2Model ----
(***************************************************************************)
(* A model of the hdrs tick-series codec: the CRC-32 engine (crc32.rs),    *)
(* the variable-width delta codec (delta_encoding.rs) and the frame        *)
(* compressor and blob serializer (compression.rs).                        *)
(*                                                                         *)
(* Representation.  TLC's integers are 32-bit signed, so                   *)
(*   - a u32 checksum is the tuple of its four base-256 digits, most       *)
(*     significant first;                                                  *)
(*   - a u8 is a number in 0..255 and a byte buffer a sequence of them;    *)
(*   - u16/u32/u64 header fields are numbers, and a field whose bytes      *)
(*     denote 2^31 or more is carried as Beyond;                           *)
(*   - an f64 is a record: class "fix" carries the value in units of       *)
(*     1/Scale, class "raw" carries a bit image outside that range.        *)
(***************************************************************************)
EXTENDS Integers, Sequences, FiniteSets, TLC

VARIABLES
    pc,        \* position of the driver in the pipeline
    ticks,     \* the input series handed to compress
    iter,      \* iteration order of every tick's price map (HashMap order)
    rec,       \* result of compress (and of a later field alteration)
    blob,      \* result of serialize, possibly tampered with afterwards
    tamper,    \* what was done to the blob or record after it was produced
    parsed,    \* result of deserialize
    out,       \* result of decompress
    basis,     \* delta codec: the i32 handed to from_basis
    variant,   \* delta codec: result of from_basis
    frame,     \* delta codec: the buffer encode appended to
    cursor,    \* delta codec: the cursor before and after decode
    decoded,   \* delta codec: result of decode
    crcData,   \* CRC engine: input of checksum
    crcSum     \* CRC engine: result of checksum

vars == <<pc, ticks, iter, rec, blob, tamper, parsed, out,
          basis, variant, frame, cursor, decoded, crcData, crcSum>>

pipeVars == <<pc, ticks, iter, rec, blob, tamper, parsed, out>>
deltaVars == <<basis, variant, frame, cursor, decoded>>
crcVars == <<crcData, crcSum>>

----------------------------------------------------------------------------
(* Bounds of the model. *)

\* longest input series
MaxTicks == 2
\* longest byte sequence handed to checksum on its own
MaxCrcLen == 3
\* how far around each range boundary of the delta codec the basis values go
BasisSpan == 3

----------------------------------------------------------------------------
(* Bytes and machine integers. *)

Byte == 0..255

RECURSIVE BitXor(_, _)
\* a ^ b, bit by bit
BitXor(a, b) ==
    IF a = 0 THEN b
    ELSE IF b = 0 THEN a
    ELSE ((a + b) % 2) + 2 * BitXor(a \div 2, b \div 2)

\* a ^ b for u8 a and b, tabulated once: XorByte[a + 1][b + 1]
RECURSIVE XorRow(_, _, _)
XorRow(a, lo, hi) ==
    IF lo = hi THEN <<BitXor(a, lo)>>
    ELSE LET mid == (lo + hi) \div 2
         IN XorRow(a, lo, mid) \o XorRow(a, mid + 1, hi)

RECURSIVE XorRows(_, _)
XorRows(lo, hi) ==
    IF lo = hi THEN <<XorRow(lo, 0, 255)>>
    ELSE LET mid == (lo + hi) \div 2
         IN XorRows(lo, mid) \o XorRows(mid + 1, hi)

XorByte == XorRows(0, 255)

Xor8(a, b) == XorByte[a + 1][b + 1]

RECURSIVE Pow2(_)
Pow2(k) == IF k = 0 THEN 1 ELSE 2 * Pow2(k - 1)

Abs(x) == IF x < 0 THEN -x ELSE x

\* a value of 2^31 or more, which the model's integers cannot hold
Beyond == 0 - 1

\* a u32 checksum as its four base-256 digits, most significant first, and
\* the u32 operations crc32.rs uses
U32(b3, b2, b1, b0) == <<b3, b2, b1, b0>>
Xor32(x, y) == <<Xor8(x[1], y[1]), Xor8(x[2], y[2]), Xor8(x[3], y[3]), Xor8(x[4], y[4])>>
Shr1(x) ==
    <<x[1] \div 2,
      (x[1] % 2) * 128 + x[2] \div 2,
      (x[2] % 2) * 128 + x[3] \div 2,
      (x[3] % 2) * 128 + x[4] \div 2>>
Shr8(x) == <<0, x[1], x[2], x[3]>>
Not32(x) == <<255 - x[1], 255 - x[2], 255 - x[3], 255 - x[4]>>

\* u32::to_le_bytes and u32::from_le_bytes of a checksum
Crc_to_le_bytes(x) == <<x[4], x[3], x[2], x[1]>>
Crc_from_le_bytes(b) == U32(b[4], b[3], b[2], b[1])

----------------------------------------------------------------------------
(* crc32.rs *)

POLY == U32(237, 184, 131, 32)   \* 0xEDB88320

\* lines 13-19: the inner loop of Crc32::new, k iterations left
RECURSIVE TableEntry(_, _)
TableEntry(crc, k) ==
    IF k = 0 THEN crc
    ELSE TableEntry(IF crc[4] % 2 # 0 THEN Xor32(Shr1(crc), POLY) ELSE Shr1(crc),
                    k - 1)

\* lines 11-21: the outer loop of Crc32::new, for i in lo..=hi (the range
\* is halved so that the entries are computed once, into a tuple)
RECURSIVE TableSlice(_, _)
TableSlice(lo, hi) ==
    IF lo = hi THEN <<TableEntry(U32(0, 0, 0, lo), 8)>>
    ELSE LET mid == (lo + hi) \div 2
         IN TableSlice(lo, mid) \o TableSlice(mid + 1, hi)

\* Crc32::new: the array table[0..255], here table[1..256]
table == TableSlice(0, 255)

\* lines 26-29: the loop over the bytes; st = [crc, k], k the next byte
RECURSIVE ChecksumLoop(_, _)
ChecksumLoop(st, data) ==
    IF st.k > Len(data) THEN st.crc
    ELSE LET i == Xor8(st.crc[4], data[st.k])
         IN ChecksumLoop([crc |-> Xor32(Shr8(st.crc), table[i + 1]),
                          k |-> st.k + 1], data)

ChecksumNoFinalNot(data) ==
    ChecksumLoop([crc |-> U32(255, 255, 255, 255), k |-> 1], data)

\* Crc32::checksum
checksum(data) ==
    Not32(ChecksumLoop([crc |-> U32(255, 255, 255, 255), k |-> 1], data))

----------------------------------------------------------------------------
(* delta_encoding.rs *)

I32Max == 2147483647
I32Min == (-2147483647) - 1

\* i32::to_le_bytes: two's complement, least significant byte first
I32_to_le_bytes(v) ==
    LET u == IF v < 0 THEN (v + 2147483647) + 1 ELSE v
        top == IF v < 0 THEN 128 ELSE 0
    IN <<u % 256, (u \div 256) % 256, (u \div 65536) % 256, (u \div 16777216) + top>>

\* i32::from_le_bytes
I32_from_le_bytes(b) ==
    LET low31 == b[1] + 256 * b[2] + 65536 * b[3] + 16777216 * (b[4] % 128)
    IN IF b[4] >= 128 THEN (low31 - 2147483647) - 1 ELSE low31

Tiny(v) == [tag |-> "Tiny", v |-> v]
Small(v) == [tag |-> "Small", v |-> v]
Large(v) == [tag |-> "Large", v |-> v]
NoVariant == [tag |-> "none", v |-> 0]

from_basis_TinyUpTo8(bp) ==
    IF bp >= -8 /\ bp <= 8 THEN Tiny(bp)
    ELSE IF bp >= -8192 /\ bp <= 8191 THEN Small(bp)
    ELSE Large(bp)

\* DeltaEncoding::from_basis (its last branch, bp <= i32::MAX, takes every
\* remaining i32, so the error return is never reached)
from_basis(bp) ==
    IF bp >= -8 /\ bp <= 7 THEN Tiny(bp)
    ELSE IF bp >= -8192 /\ bp <= 8191 THEN Small(bp)
    ELSE IF bp <= I32Max THEN Large(bp)
    ELSE [tag |-> "error", v |-> 0]

\* DeltaEncoding::to_basis
to_basis(enc) == enc.v

\* DeltaEncoding::encode: the buffer with the frame appended
encode(enc, buf) ==
    CASE enc.tag = "Tiny" ->
            \* (v as u8) & 0x0F
            Append(buf, (enc.v % 256) % 16)
      [] enc.tag = "Small" ->
            \* 0b01000000 | ((v as u8) & 0x3F), then ((v >> 6) as u8) & 0xFF
            buf \o <<64 + ((enc.v % 256) % 64), (enc.v \div 64) % 256>>
      [] enc.tag = "Large" ->
            \* 0b11000000, then v.to_le_bytes()
            buf \o <<192>> \o I32_to_le_bytes(enc.v)

Underrun(pos) == [kind |-> "err", enc |-> NoVariant, pos |-> pos]
Decoded(enc, pos) == [kind |-> "ok", enc |-> enc, pos |-> pos]

decode_LargeNeedsSix(buf, pos) ==
    IF pos >= Len(buf) THEN Underrun(pos)
    ELSE
    LET first == buf[pos + 1]
        pre == first \div 64
    IN  CASE pre = 0 ->
                LET v0 == first % 16
                    v == IF v0 > 7 THEN v0 - 16 ELSE v0
                IN Decoded(Tiny(v), pos + 1)
          [] pre = 1 ->
                IF pos + 1 >= Len(buf) THEN Underrun(pos)
                ELSE LET l == first % 64
                         h == buf[pos + 2]
                         v0 == h * 64 + l
                         v == IF v0 > 8191 THEN v0 - 16384 ELSE v0
                     IN Decoded(Small(v), pos + 2)
          [] OTHER ->
                IF pos + 5 >= Len(buf) THEN Underrun(pos)
                ELSE Decoded(Large(I32_from_le_bytes(SubSeq(buf, pos + 2, pos + 5))),
                             pos + 5)

decode_SmallNeedsThree(buf, pos) ==
    IF pos >= Len(buf) THEN Underrun(pos)
    ELSE
    LET first == buf[pos + 1]
        pre == first \div 64
    IN  CASE pre = 0 ->
                LET v0 == first % 16
                    v == IF v0 > 7 THEN v0 - 16 ELSE v0
                IN Decoded(Tiny(v), pos + 1)
          [] pre = 1 ->
                IF pos + 2 >= Len(buf) THEN Underrun(pos)
                ELSE LET l == first % 64
                         h == buf[pos + 2]
                         v0 == h * 64 + l
                         v == IF v0 > 8191 THEN v0 - 16384 ELSE v0
                     IN Decoded(Small(v), pos + 2)
          [] OTHER ->
                IF pos + 4 >= Len(buf) THEN Underrun(pos)
                ELSE Decoded(Large(I32_from_le_bytes(SubSeq(buf, pos + 2, pos + 5))),
                             pos + 5)

\* DeltaEncoding::decode: pos is the 0-based cursor, buf[pos] is buf[pos + 1]
\* here; the result carries the cursor as decode leaves it
decode(buf, pos) ==
    IF pos >= Len(buf) THEN Underrun(pos)
    ELSE
    LET first == buf[pos + 1]
        pre == first \div 64
    IN  CASE pre = 0 ->
                LET v0 == first % 16
                    v == IF v0 > 7 THEN v0 - 16 ELSE v0
                IN Decoded(Tiny(v), pos + 1)
          [] pre = 1 ->
                IF pos + 1 >= Len(buf) THEN Underrun(pos)
                ELSE LET l == first % 64
                         h == buf[pos + 2]
                         v0 == h * 64 + l
                         v == IF v0 > 8191 THEN v0 - 16384 ELSE v0
                     IN Decoded(Small(v), pos + 2)
          [] OTHER ->
                IF pos + 4 >= Len(buf) THEN Underrun(pos)
                ELSE Decoded(Large(I32_from_le_bytes(SubSeq(buf, pos + 2, pos + 5))),
                             pos + 5)

----------------------------------------------------------------------------
(* Fixed-width little-endian integers (to_le_bytes / from_le_bytes). *)

\* u16::to_le_bytes
U16_to_le_bytes(x) == <<x % 256, (x \div 256) % 256>>
U16_from_be_bytes(b) == 256 * b[1] + b[2]

\* u16::from_le_bytes
U16_from_le_bytes(b) == b[1] + 256 * b[2]

\* u32::to_le_bytes of a number below 2^31
U32_to_le_bytes(x) ==
    <<x % 256, (x \div 256) % 256, (x \div 65536) % 256, (x \div 16777216) % 256>>
\* u32::from_le_bytes
U32_from_le_bytes(b) ==
    IF b[4] >= 128 THEN Beyond
    ELSE b[1] + 256 * b[2] + 65536 * b[3] + 16777216 * b[4]

\* u64::to_le_bytes of a number below 2^31
U64_to_le_bytes(x) == U32_to_le_bytes(x) \o <<0, 0, 0, 0>>
\* u64::from_le_bytes
U64_from_le_bytes(b) ==
    IF b[5] # 0 \/ b[6] # 0 \/ b[7] # 0 \/ b[8] # 0 THEN Beyond
    ELSE U32_from_le_bytes(SubSeq(b, 1, 4))

----------------------------------------------------------------------------
(* f64.  A "fix" value is u / Scale; products are rounded to the nearest   *)
(* unit where the hardware rounds to the nearest double.  The byte image   *)
(* is IEEE-754 binary64 and is computed for whole numbers below 2^20, the  *)
(* only fix values the codec writes (the reference frame); any other bit   *)
(* pattern read from a blob is kept as a "raw" value.                      *)

Scale == 100 * 100
BpUnit == 100 * 100       \* the 10000.0 of compression.rs lines 67 and 160

Fix(u) == [cls |-> "fix", u |-> u, bits |-> << >>]
Raw(b) == [cls |-> "raw", u |-> 0, bits |-> b]
Whole(w) == Fix(w * Scale)

RECURSIVE Log2(_)
Log2(w) == IF w < 2 THEN 0 ELSE 1 + Log2(w \div 2)

RECURSIVE GCD(_, _)
GCD(a, b) == IF b = 0 THEN a ELSE GCD(b, a % b)

\* n / d rounded half away from zero (f64::round), d > 0
RoundDiv(n, d) ==
    IF n >= 0 THEN (2 * n + d) \div (2 * d) ELSE -((2 * (-n) + d) \div (2 * d))

\* f64::to_le_bytes
F64_to_le_bytes(x) ==
    CASE x.cls = "raw" -> x.bits
      [] x.cls = "fix" /\ x.u = 0 -> <<0, 0, 0, 0, 0, 0, 0, 0>>
      [] x.cls = "fix" /\ x.u > 0 /\ x.u % Scale = 0 /\ x.u \div Scale < 1048576 ->
            LET w == x.u \div Scale
                e == Log2(w)
                E == 1023 + e
                m20 == (w - Pow2(e)) * Pow2(20 - e)   \* top 20 mantissa bits
            IN <<0, 0, 0, 0, m20 % 256, (m20 \div 256) % 256,
                 (E % 16) * 16 + m20 \div 65536, E \div 16>>

\* f64::from_le_bytes
F64_from_le_bytes(b) ==
    LET E == (b[8] % 128) * 16 + b[7] \div 16
        e == E - 1023
        m20 == (b[7] % 16) * 65536 + b[6] * 256 + b[5]
        low0 == b[1] = 0 /\ b[2] = 0 /\ b[3] = 0 /\ b[4] = 0
    IN  IF low0 /\ b[5] = 0 /\ b[6] = 0 /\ b[7] = 0 /\ b[8] = 0 THEN Fix(0)
        ELSE IF low0 /\ b[8] < 128 /\ e >= 0 /\ e < 20 /\ m20 % Pow2(20 - e) = 0
             THEN Whole(Pow2(e) + m20 \div Pow2(20 - e))
        ELSE Raw(b)

\* ((price - prev) / prev * 10000.0).round() as i32   (compression.rs line 67);
\* a division by zero gives an infinity or a NaN, which `as i32` saturates
\* or turns into 0
DeltaBp(price, prev) ==
    CASE price.cls = "fix" /\ prev.cls = "fix" ->
        LET d == price.u - prev.u
        IN  IF prev.u = 0
            THEN (IF d > 0 THEN I32Max ELSE IF d < 0 THEN I32Min ELSE 0)
            ELSE LET g == GCD(Abs(d), Abs(prev.u))
                     a == d \div g
                     b == Abs(prev.u) \div g
                 IN IF prev.u > 0 THEN RoundDiv(a * BpUnit, b)
                                  ELSE RoundDiv((-a) * BpUnit, b)

\* curr * (1.0 + delta_bp as f64 / 10000.0)   (compression.rs line 160)
MulBp(x, delta_bp) ==
    IF x.cls = "fix" /\ x.u >= 0 /\ x.u <= 500000000 /\ delta_bp >= -20000 /\ delta_bp <= 20000
    THEN LET q == x.u \div BpUnit
             r == x.u % BpUnit
         IN Fix(x.u + q * delta_bp + RoundDiv(r * delta_bp, BpUnit))
    ELSE Raw(<< >>)

----------------------------------------------------------------------------
(* compression.rs: compress *)

NoCrc == U32(0, 0, 0, 0)

Range(f) == {f[i] : i \in DOMAIN f}

RECURSIVE Concat(_)
Concat(ss) == IF ss = << >> THEN << >> ELSE Head(ss) \o Concat(Tail(ss))

\* the little-endian byte image of a price vector (lines 49-52, 108-111)
RefBytes(ref_frame) ==
    Concat([i \in DOMAIN ref_frame |-> F64_to_le_bytes(ref_frame[i])])

\* sym_idx.get(sym): the 0-based index of sym in symbols, or -1 for None
SymIdx(symbols, sym) ==
    IF \E i \in DOMAIN symbols : symbols[i] = sym
    THEN (CHOOSE i \in DOMAIN symbols : symbols[i] = sym) - 1
    ELSE 0 - 1

CompressResult(kind, msg, r) == [kind |-> kind, msg |-> msg, rec |-> r]

NoRecord ==
    [version |-> 0, symbols |-> << >>, base_ts |-> 0, ref_frame |-> << >>,
     data |-> << >>, num_ticks |-> 0, ref_crc |-> NoCrc, data_crc |-> NoCrc,
     overall_crc |-> NoCrc]

\* lines 65-74: the loop over one tick's price map, in the map's iteration
\* order `order`; st = [prev, changed, deltas]
RECURSIVE ScanPrices(_, _, _, _, _)
ScanPrices(st, tick, order, symbols, k) ==
    IF k > Len(order) THEN st
    ELSE
    LET sym == order[k]
        price == tick.prices[sym]
        idx == SymIdx(symbols, sym)
    IN  IF idx < 0 THEN ScanPrices(st, tick, order, symbols, k + 1)
        ELSE
        LET delta_bp == DeltaBp(price, st.prev[idx + 1])
        IN  IF delta_bp # 0
            THEN ScanPrices(
                    [prev |-> [st.prev EXCEPT ![idx + 1] = price],
                     changed |-> [st.changed EXCEPT ![idx + 1] = TRUE],
                     deltas |-> Append(st.deltas, <<idx, price, delta_bp>>)],
                    tick, order, symbols, k + 1)
            ELSE ScanPrices(st, tick, order, symbols, k + 1)

RECURSIVE BitmapByte(_, _, _)
\* bits idx = 8*j .. 8*j+7 of byte j: bm[idx / 8] |= 1 << (idx % 8)
BitmapByte(changed, j, b) ==
    IF b > 7 THEN 0
    ELSE (IF 8 * j + b < Len(changed) /\ changed[8 * j + b + 1] THEN Pow2(b) ELSE 0)
         + BitmapByte(changed, j, b + 1)

Bitmap_AllClear(changed) ==
    [j \in 1..((Len(changed) + 7) \div 8) |-> 0]

\* lines 76-82
Bitmap(changed) ==
    LET n == Len(changed)
        bm_bytes == (n + 7) \div 8
    IN [j \in 1..bm_bytes |-> BitmapByte(changed, j - 1, 0)]

\* lines 85-87: the frames, in the order the deltas were pushed
RECURSIVE EncodeDeltas(_, _, _)
EncodeDeltas(deltas, k, buf) ==
    IF k > Len(deltas) THEN buf
    ELSE EncodeDeltas(deltas, k + 1, encode(from_basis(deltas[k][3]), buf))

\* lines 58-88: one iteration of the loop over ticks[1..]; st = [prev, data]
CompressTick(st, tick, order, symbols, base_ts) ==
    LET n == Len(symbols)
        ts_delta == tick.timestamp - base_ts
        scan == ScanPrices([prev |-> st.prev,
                            changed |-> [i \in 1..n |-> FALSE],
                            deltas |-> << >>],
                           tick, order, symbols, 1)
        withTs == st.data \o U32_to_le_bytes(ts_delta)
        withBm == withTs \o Bitmap(scan.changed)
    IN [prev |-> scan.prev, data |-> EncodeDeltas(scan.deltas, 1, withBm)]

RECURSIVE CompressLoop(_, _, _, _, _, _)
CompressLoop(st, tcks, orders, symbols, base_ts, k) ==
    IF k > Len(tcks) THEN st
    ELSE CompressLoop(CompressTick(st, tcks[k], orders[k], symbols, base_ts),
                      tcks, orders, symbols, base_ts, k + 1)

\* lines 31-102: compress on a non-empty series.  orders[k] is the
\* iteration order of ticks[k - 1].prices; orders[1] is that of
\* ticks[0].prices.keys(), which fixes the dictionary
CompressNonEmpty(tcks, orders) ==
    LET symbols == orders[1]
        n == Len(symbols)
        base_ts == tcks[1].timestamp
        ref_frame == [i \in 1..n |-> tcks[1].prices[symbols[i]]]
        ref_crc == checksum(RefBytes(ref_frame))
        fin == CompressLoop([prev |-> ref_frame, data |-> << >>],
                            tcks, orders, symbols, base_ts, 2)
    IN CompressResult("ok", "",
        [version |-> 1,
         symbols |-> symbols,
         base_ts |-> base_ts,
         ref_frame |-> ref_frame,
         data |-> fin.data,
         num_ticks |-> Len(tcks),
         ref_crc |-> ref_crc,
         data_crc |-> checksum(fin.data),
         overall_crc |-> NoCrc])

compress_EmptyGivesRecord(tcks, orders) ==
    IF tcks = << >> THEN CompressResult("ok", "", NoRecord)
    ELSE CompressNonEmpty(tcks, orders)

\* CompressedTimeSeries::compress
compress(tcks, orders) ==
    IF tcks = << >> THEN CompressResult("err", "Empty tick data", NoRecord)
    ELSE CompressNonEmpty(tcks, orders)

----------------------------------------------------------------------------
(* compression.rs: decompress *)

DecompressResult(kind, msg, tcks) == [kind |-> kind, msg |-> msg, ticks |-> tcks]

PriceMap_FirstValue(symbols, vals) == [sym \in Range(symbols) |-> vals[1]]

\* the HashMap built by inserting (symbols[i], vals[i]) for i ascending
PriceMap(symbols, vals) ==
    [s \in Range(symbols) |->
        LET last == CHOOSE i \in DOMAIN symbols :
                        /\ symbols[i] = s
                        /\ \A j \in DOMAIN symbols : symbols[j] = s => j <= i
        IN vals[last]]

Tick(ts, prices) == [timestamp |-> ts, prices |-> prices]

\* lines 156-162: the loop over the symbol indices of one tick record;
\* st = [kind, curr, pos]
RECURSIVE ApplyDeltas(_, _, _, _)
ApplyDeltas(st, data, bm, idx) ==
    IF idx >= Len(st.curr) \/ st.kind = "err" THEN st
    ELSE IF (bm[(idx \div 8) + 1] \div Pow2(idx % 8)) % 2 # 0
    THEN LET enc == decode(data, st.pos)
         IN IF enc.kind = "err"
            THEN [st EXCEPT !.kind = "err"]
            ELSE ApplyDeltas(
                    [kind |-> "ok",
                     curr |-> [st.curr EXCEPT
                                 ![idx + 1] = MulBp(@, to_basis(enc.enc))],
                     pos |-> enc.pos],
                    data, bm, idx + 1)
    ELSE ApplyDeltas(st, data, bm, idx + 1)

AddTs(base_ts, ts_delta) ==
    IF base_ts = Beyond \/ ts_delta = Beyond THEN Beyond ELSE base_ts + ts_delta

\* lines 142-172: the while loop; the result is the ticks vector, or an error
RECURSIVE DecompressLoop(_, _, _, _)
DecompressLoop(r, pos, curr, acc) ==
    LET n == Len(r.symbols)
        bm_bytes == (n + 7) \div 8
        len == Len(r.data)
    IN  IF ~(pos < len) THEN DecompressResult("ok", "", acc)
        ELSE IF pos + 4 > len THEN DecompressResult("ok", "", acc)
        ELSE
        LET ts_delta == U32_from_le_bytes(SubSeq(r.data, pos + 1, pos + 4))
            pos2 == pos + 4
        IN  IF pos2 + bm_bytes > len THEN DecompressResult("ok", "", acc)
            ELSE
            LET bm == SubSeq(r.data, pos2 + 1, pos2 + bm_bytes)
                st == ApplyDeltas([kind |-> "ok", curr |-> curr,
                                   pos |-> pos2 + bm_bytes], r.data, bm, 0)
            IN  IF st.kind = "err"
                THEN DecompressResult("err", "Buffer underrun", << >>)
                ELSE DecompressLoop(r, st.pos, st.curr,
                        Append(acc, Tick(AddTs(r.base_ts, ts_delta),
                                         PriceMap(r.symbols, st.curr))))

decompress_NoDataCheck(r) ==
    IF checksum(RefBytes(r.ref_frame)) # r.ref_crc
    THEN DecompressResult("err", "Reference checksum mismatch", << >>)
    ELSE DecompressLoop(r, 0, r.ref_frame,
                        <<Tick(r.base_ts, PriceMap(r.symbols, r.ref_frame))>>)

\* CompressedTimeSeries::decompress
decompress(r) ==
    IF checksum(RefBytes(r.ref_frame)) # r.ref_crc
    THEN DecompressResult("err", "Reference checksum mismatch", << >>)
    ELSE IF checksum(r.data) # r.data_crc
    THEN DecompressResult("err", "Data checksum mismatch", << >>)
    ELSE DecompressLoop(r, 0, r.ref_frame,
                        <<Tick(r.base_ts, PriceMap(r.symbols, r.ref_frame))>>)

----------------------------------------------------------------------------
(* compression.rs: serialize and deserialize *)

\* lines 186-189: one length byte (sym.len() as u8), then the symbol's bytes
SymbolBytes(symbols) ==
    Concat([i \in DOMAIN symbols |-> <<Len(symbols[i]) % 256>> \o symbols[i]])

\* lines 181-198: everything the trailer covers
SerializeBody(r) ==
    <<r.version>>
    \o U16_to_le_bytes(Len(r.symbols) % 65536)
    \o U32_to_le_bytes(r.num_ticks)
    \o U64_to_le_bytes(r.base_ts)
    \o SymbolBytes(r.symbols)
    \o RefBytes(r.ref_frame)
    \o Crc_to_le_bytes(r.ref_crc)
    \o Crc_to_le_bytes(r.data_crc)
    \o U32_to_le_bytes(Len(r.data))
    \o r.data

\* CompressedTimeSeries::serialize
serialize(r) ==
    LET buf == SerializeBody(r)
    IN buf \o Crc_to_le_bytes(checksum(buf))

\* std::str::from_utf8(bytes).is_ok(), bytes read from position k on
RECURSIVE Utf8Valid(_, _)
Utf8Valid(b, k) ==
    LET n == Len(b)
        Cont(j) == j <= n /\ b[j] >= 128 /\ b[j] <= 191
        In(j, lo, hi) == j <= n /\ b[j] >= lo /\ b[j] <= hi
    IN  IF k > n THEN TRUE
        ELSE LET c == b[k]
             IN CASE c <= 127 -> Utf8Valid(b, k + 1)
                  [] c >= 194 /\ c <= 223 -> Cont(k + 1) /\ Utf8Valid(b, k + 2)
                  [] c = 224 -> In(k + 1, 160, 191) /\ Cont(k + 2) /\ Utf8Valid(b, k + 3)
                  [] (c >= 225 /\ c <= 236) \/ c = 238 \/ c = 239 ->
                        Cont(k + 1) /\ Cont(k + 2) /\ Utf8Valid(b, k + 3)
                  [] c = 237 -> In(k + 1, 128, 159) /\ Cont(k + 2) /\ Utf8Valid(b, k + 3)
                  [] c = 240 ->
                        In(k + 1, 144, 191) /\ Cont(k + 2) /\ Cont(k + 3)
                        /\ Utf8Valid(b, k + 4)
                  [] c >= 241 /\ c <= 243 ->
                        Cont(k + 1) /\ Cont(k + 2) /\ Cont(k + 3) /\ Utf8Valid(b, k + 4)
                  [] c = 244 ->
                        In(k + 1, 128, 143) /\ Cont(k + 2) /\ Cont(k + 3)
                        /\ Utf8Valid(b, k + 4)
                  [] OTHER -> FALSE

\* the three outcomes of deserialize: a record, an Err value, or a panic
\* (an index or slice out of range aborts the call)
ParseOk(r) == [kind |-> "ok", msg |-> "", rec |-> r]
ParseErr(msg) == [kind |-> "err", msg |-> msg, rec |-> NoRecord]
ParsePanic == [kind |-> "panic", msg |-> "index out of range", rec |-> NoRecord]

\* data[pos..pos + k] is in range
InRange(data, pos, k) == pos + k <= Len(data)

\* lines 237-244: the symbol loop, left symbols to go; st = [kind, pos, symbols]
RECURSIVE ParseSymbols(_, _, _)
ParseSymbols(st, data, left) ==
    IF left = 0 \/ st.kind # "ok" THEN st
    ELSE IF ~InRange(data, st.pos, 1) THEN [st EXCEPT !.kind = "panic"]
    ELSE LET len == data[st.pos + 1]
             pos == st.pos + 1
         IN IF ~InRange(data, pos, len) THEN [st EXCEPT !.kind = "panic"]
            ELSE LET bytes == SubSeq(data, pos + 1, pos + len)
                 IN IF ~Utf8Valid(bytes, 1) THEN [st EXCEPT !.kind = "err"]
                    ELSE ParseSymbols([kind |-> "ok", pos |-> pos + len,
                                       symbols |-> Append(st.symbols, bytes)],
                                      data, left - 1)

\* lines 246-250: the reference-frame loop; st = [kind, pos, ref_frame]
RECURSIVE ParseRefFrame(_, _, _)
ParseRefFrame(st, data, left) ==
    IF left = 0 \/ st.kind # "ok" THEN st
    ELSE IF ~InRange(data, st.pos, 8) THEN [st EXCEPT !.kind = "panic"]
    ELSE ParseRefFrame(
            [kind |-> "ok", pos |-> st.pos + 8,
             ref_frame |-> Append(st.ref_frame,
                              F64_from_le_bytes(SubSeq(data, st.pos + 1, st.pos + 8)))],
            data, left - 1)

\* lines 252-273: the inner checksums, the payload length and the payload
ParseTail(data, pos, version, num_ticks, base_ts, symbols, ref_frame, overall_crc) ==
    IF ~InRange(data, pos, 12) THEN ParsePanic
    ELSE
    LET ref_crc == Crc_from_le_bytes(SubSeq(data, pos + 1, pos + 4))
        data_crc == Crc_from_le_bytes(SubSeq(data, pos + 5, pos + 8))
        comp_len == U32_from_le_bytes(SubSeq(data, pos + 9, pos + 12))
        pos2 == pos + 12
    IN  IF comp_len = Beyond \/ ~InRange(data, pos2, comp_len) THEN ParsePanic
        ELSE ParseOk([version |-> version,
                      symbols |-> symbols,
                      base_ts |-> base_ts,
                      ref_frame |-> ref_frame,
                      data |-> SubSeq(data, pos2 + 1, pos2 + comp_len),
                      num_ticks |-> num_ticks,
                      ref_crc |-> ref_crc,
                      data_crc |-> data_crc,
                      overall_crc |-> overall_crc])

\* lines 223-273: the parse that follows the trailer check
ParseFields(data, overall_crc) ==
    IF ~InRange(data, 0, 15) THEN ParsePanic
    ELSE
    LET version == data[1]
        n == U16_from_le_bytes(SubSeq(data, 2, 3))
        num_ticks == U32_from_le_bytes(SubSeq(data, 4, 7))
        base_ts == U64_from_le_bytes(SubSeq(data, 8, 15))
        syms == ParseSymbols([kind |-> "ok", pos |-> 15, symbols |-> << >>], data, n)
    IN  CASE syms.kind = "panic" -> ParsePanic
          [] syms.kind = "err" -> ParseErr("invalid utf-8 sequence")
          [] OTHER ->
             LET refs == ParseRefFrame([kind |-> "ok", pos |-> syms.pos,
                                        ref_frame |-> << >>], data, n)
             IN IF refs.kind = "panic" THEN ParsePanic
                ELSE ParseTail(data, refs.pos, version, num_ticks, base_ts,
                               syms.symbols, refs.ref_frame, overall_crc)

deserialize_NoTrailerCheck(data) ==
    IF Len(data) < 4 THEN ParseErr("Data too short")
    ELSE ParseFields(data, Crc_from_le_bytes(SubSeq(data, Len(data) - 3, Len(data))))

\* CompressedTimeSeries::deserialize
deserialize(data) ==
    IF Len(data) < 4 THEN ParseErr("Data too short")
    ELSE
    LET crc_pos == Len(data) - 4
        overall_crc == Crc_from_le_bytes(SubSeq(data, crc_pos + 1, crc_pos + 4))
    IN  IF checksum(SubSeq(data, 1, crc_pos)) # overall_crc
        THEN ParseErr("Overall checksum mismatch")
        ELSE ParseFields(data, overall_crc)

----------------------------------------------------------------------------
(* The CRC engine on its own: checksum applied to a byte sequence. *)

NoSum == << >>

CrcBytes == {0, 1, 128, 192, 238, 255}

RECURSIVE SeqsUpTo(_, _)
SeqsUpTo(S, n) ==
    IF n = 0 THEN {<< >>}
    ELSE LET shorter == SeqsUpTo(S, n - 1)
         IN shorter \cup {Append(s, x) : s \in {t \in shorter : Len(t) = n - 1}, x \in S}

TestVector == <<192, 255, 238>>   \* crc32.rs test_crc32

CrcInputs == SeqsUpTo(CrcBytes, MaxCrcLen) \cup {TestVector}

PipeIdle ==
    /\ pc = "idle" /\ ticks = << >> /\ iter = << >>
    /\ rec = [kind |-> "none", msg |-> "", rec |-> NoRecord]
    /\ blob = << >> /\ tamper = [kind |-> "none", at |-> 0]
    /\ parsed = [kind |-> "none", msg |-> "", rec |-> NoRecord]
    /\ out = [kind |-> "none", msg |-> "", ticks |-> << >>]

DeltaIdle ==
    /\ basis = 0 /\ variant = [tag |-> "none", v |-> 0]
    /\ frame = << >> /\ cursor = 0
    /\ decoded = [kind |-> "none", enc |-> [tag |-> "none", v |-> 0], pos |-> 0]

CrcIdle == crcData = << >> /\ crcSum = NoSum

InitCrc ==
    /\ PipeIdle /\ DeltaIdle
    /\ crcData \in CrcInputs
    /\ crcSum = NoSum

Checksum ==
    /\ crcSum = NoSum
    /\ crcSum' = checksum(crcData)
    /\ UNCHANGED <<crcData, pipeVars, deltaVars>>

NextCrc == Checksum

SpecCrc == InitCrc /\ [][NextCrc]_vars

----------------------------------------------------------------------------
(* The delta codec on its own: from_basis, encode and decode of one value, *)
(* the frame appended to a buffer that may already hold bytes.             *)

Boundaries == {-8192, -8, 0, 7, 8191}

BasisSet ==
    UNION {(b - BasisSpan)..(b + BasisSpan + 1) : b \in Boundaries}
    \cup {I32Min, I32Min + 1, -16777216, -65536, -256, 255, 65535, 16777215,
          I32Max - 1, I32Max}

FramePrefixes == {<< >>, <<200>>}

NoDecode == [kind |-> "none", enc |-> NoVariant, pos |-> 0]

InitDelta ==
    /\ PipeIdle /\ CrcIdle
    /\ basis \in BasisSet
    /\ variant = NoVariant
    /\ frame \in FramePrefixes
    /\ cursor = Len(frame)
    /\ decoded = NoDecode

FromBasis ==
    /\ variant = NoVariant
    /\ variant' = from_basis(basis)
    /\ UNCHANGED <<basis, frame, cursor, decoded, pipeVars, crcVars>>

Encode ==
    /\ variant.tag \in {"Tiny", "Small", "Large"}
    /\ Len(frame) = cursor
    /\ decoded = NoDecode
    /\ frame' = encode(variant, frame)
    /\ UNCHANGED <<basis, variant, cursor, decoded, pipeVars, crcVars>>

Decode ==
    /\ Len(frame) > cursor
    /\ decoded = NoDecode
    /\ decoded' = decode(frame, cursor)
    /\ UNCHANGED <<basis, variant, frame, cursor, pipeVars, crcVars>>

NextDelta == FromBasis \/ Encode \/ Decode

SpecDelta == InitDelta /\ [][NextDelta]_vars

----------------------------------------------------------------------------
(* The pipeline: a series is compressed, and the record is decompressed,   *)
(* or serialized, parsed back and decompressed.  The iteration order of    *)
(* each tick's price map (a HashMap) is chosen freely.                     *)

SymA == <<65>>
SymBB == <<66, 66>>
Symbols == {SymA, SymBB}

\* 2000 -> 2001 is +5 bp (Tiny), 2001 -> 4400 is +11989 bp (Large),
\* 4400 -> 2000 is -5455 bp (Small); no quotient falls on a rounding tie
Prices == {Whole(2000), Whole(2001), Whole(4400)}
BaseTimes == {1000}
TsOffsets == {1, 300}

PriceMaps(S, P) == UNION {[D -> P] : D \in SUBSET S}

\* the series of n ticks that meet the input contract: later ticks price a
\* subset of the first tick's symbols, at a timestamp not before the first
SeriesOfLen(S, P, offs, n) ==
    IF n = 0 THEN {<< >>}
    ELSE UNION {
        LET later == {Tick(t0 + d, m) : d \in offs,
                                        m \in PriceMaps(DOMAIN first, P)}
        IN {[i \in 1..n |-> IF i = 1 THEN Tick(t0, first) ELSE rest[i]] :
                rest \in [2..n -> later]}
        : t0 \in BaseTimes, first \in PriceMaps(S, P)}

Series(S, P, offs) == UNION {SeriesOfLen(S, P, offs, n) : n \in 0..MaxTicks}

\* the orders in which a HashMap with key set K may be iterated
Perms(K) ==
    {o \in [1..Cardinality(K) -> K] : \A i, j \in DOMAIN o : o[i] = o[j] => i = j}

Orders(tcks) ==
    {o \in [DOMAIN tcks -> UNION {Perms(DOMAIN tcks[i].prices) : i \in DOMAIN tcks}] :
        \A i \in DOMAIN tcks : o[i] \in Perms(DOMAIN tcks[i].prices)}

NoCompress == CompressResult("none", "", NoRecord)
NoParse == [kind |-> "none", msg |-> "", rec |-> NoRecord]
NoOut == DecompressResult("none", "", << >>)
NoTamper == [kind |-> "none", at |-> 0]

PipeStart(S) ==
    /\ pc = "start"
    /\ ticks \in S
    /\ iter = << >>
    /\ rec = NoCompress
    /\ blob = << >>
    /\ tamper = NoTamper
    /\ parsed = NoParse
    /\ out = NoOut

Init ==
    /\ PipeStart(Series(Symbols, Prices, TsOffsets))
    /\ DeltaIdle /\ CrcIdle

\* compress(&ticks)
Compress ==
    /\ pc = "start"
    /\ \E o \in Orders(ticks) :
        /\ iter' = o
        /\ rec' = compress(ticks, o)
    /\ pc' = IF rec'.kind = "ok" THEN "compressed" ELSE "failed"
    /\ UNCHANGED <<ticks, blob, tamper, parsed, out, deltaVars, crcVars>>

\* compressed.decompress()
Decompress ==
    /\ pc \in {"compressed", "altered"}
    /\ out' = decompress(rec.rec)
    /\ pc' = "decompressed"
    /\ UNCHANGED <<ticks, iter, rec, blob, tamper, parsed, deltaVars, crcVars>>

\* compressed.serialize()
Serialize ==
    /\ pc = "compressed"
    /\ blob' = serialize(rec.rec)
    /\ pc' = "serialized"
    /\ UNCHANGED <<ticks, iter, rec, tamper, parsed, out, deltaVars, crcVars>>

\* CompressedTimeSeries::deserialize(&blob)
Deserialize ==
    /\ pc \in {"serialized", "tampered"}
    /\ parsed' = deserialize(blob)
    /\ pc' = "deserialized"
    /\ UNCHANGED <<ticks, iter, rec, blob, tamper, out, deltaVars, crcVars>>

\* deserialized.decompress()
DecompressParsed ==
    /\ pc = "deserialized"
    /\ parsed.kind = "ok"
    /\ out' = decompress(parsed.rec)
    /\ pc' = "restored"
    /\ UNCHANGED <<ticks, iter, rec, blob, tamper, parsed, deltaVars, crcVars>>

Next == Compress \/ Decompress \/ Serialize \/ Deserialize \/ DecompressParsed

Spec == Init /\ [][Next]_vars

----------------------------------------------------------------------------
(* Tampering: a small family of series is compressed and serialized, and   *)
(* the record or the blob is altered before it is read back.               *)

TamperSymbols == {SymA}
TamperPrices == Prices
TamperOffsets == {300}

InitTamper ==
    /\ PipeStart(Series(TamperSymbols, TamperPrices, TamperOffsets))
    /\ DeltaIdle /\ CrcIdle

\* compressed.data[i] ^= 0xFF   (test_checksum_validation, for any i)
AlterData ==
    /\ pc = "compressed"
    /\ \E i \in 1..Len(rec.rec.data) :
        /\ rec' = [rec EXCEPT !.rec.data[i] = Xor8(@, 255)]
        /\ tamper' = [kind |-> "alter", at |-> i]
    /\ pc' = "altered"
    /\ UNCHANGED <<ticks, iter, blob, parsed, out, deltaVars, crcVars>>

\* compressed.ref_frame[i] = another price
AlterRef ==
    /\ pc = "compressed"
    /\ \E i \in 1..Len(rec.rec.ref_frame), p \in Prices :
        /\ p # rec.rec.ref_frame[i]
        /\ rec' = [rec EXCEPT !.rec.ref_frame[i] = p]
        /\ tamper' = [kind |-> "alter", at |-> -i]
    /\ pc' = "altered"
    /\ UNCHANGED <<ticks, iter, blob, parsed, out, deltaVars, crcVars>>

\* one bit of the blob is flipped
FlipBit ==
    /\ pc = "serialized"
    /\ \E bit \in 0..(8 * Len(blob) - 1) :
        /\ blob' = [blob EXCEPT ![(bit \div 8) + 1] = Xor8(@, Pow2(bit % 8))]
        /\ tamper' = [kind |-> "flip", at |-> bit]
    /\ pc' = "tampered"
    /\ UNCHANGED <<ticks, iter, rec, parsed, out, deltaVars, crcVars>>

\* the blob is cut to its first k bytes; with reseal, the CRC-32 of those
\* bytes is appended, so that the last 4 bytes match the bytes before them
Truncate ==
    /\ pc = "serialized"
    /\ \E k \in 0..(Len(blob) - 1), reseal \in BOOLEAN :
        LET prefix == SubSeq(blob, 1, k)
        IN /\ blob' = IF reseal THEN prefix \o Crc_to_le_bytes(checksum(prefix))
                                ELSE prefix
           /\ tamper' = [kind |-> IF reseal THEN "reseal" ELSE "cut", at |-> k]
    /\ pc' = "tampered"
    /\ UNCHANGED <<ticks, iter, rec, parsed, out, deltaVars, crcVars>>

\* a blob is written by hand in the wire format, with a valid trailer: the
\* num_ticks field and the payload are chosen independently, and the inner
\* checksums match ("good") or one of them is off by a bit
Forge ==
    /\ pc = "serialized"
    /\ \E nt \in 0..(MaxTicks + 1), cut \in 0..Len(rec.rec.data),
          inner \in {"good", "badref", "baddata"} :
        LET payload == SubSeq(rec.rec.data, 1, cut)
            off == U32(0, 0, 0, 1)
            forged == [rec.rec EXCEPT
                        !.num_ticks = nt,
                        !.data = payload,
                        !.data_crc = IF inner = "baddata"
                                     THEN Xor32(checksum(payload), off)
                                     ELSE checksum(payload),
                        !.ref_crc = IF inner = "badref" THEN Xor32(@, off) ELSE @]
        IN /\ rec' = [rec EXCEPT !.rec = forged]
           /\ blob' = serialize(forged)
           /\ tamper' = [kind |-> "forge", at |-> cut]
    /\ pc' = "tampered"
    /\ UNCHANGED <<ticks, iter, parsed, out, deltaVars, crcVars>>

NextTamper ==
    \/ Compress \/ Decompress \/ Serialize \/ Deserialize \/ DecompressParsed
    \/ AlterData \/ AlterRef \/ FlipBit \/ Truncate \/ Forge

SpecTamper == InitTamper /\ [][NextTamper]_vars

----------------------------------------------------------------------------
(* Properties. *)

\* |(price - got) / price| < 0.01, as test_compress_decompress_roundtrip
\* computes it
WithinOnePercent(price, got) ==
    /\ got.cls = "fix"
    /\ price.u # 0
    /\ Abs(price.u - got.u) <= (Abs(price.u) - 1) \div 100

\* C1: for every non-empty series that meets the input contract,
\* decompress(compress(ticks)) succeeds and returns as many ticks as the
\* input, tick i carrying the timestamp of input tick i.
C1_RoundTripLengthAndTimestamps ==
    (pc = "decompressed" /\ tamper = NoTamper) =>
        /\ out.kind = "ok"
        /\ Len(out.ticks) = Len(ticks)
        /\ \A i \in DOMAIN ticks : out.ticks[i].timestamp = ticks[i].timestamp

C1_Witness ==
    /\ pc = "decompressed" /\ tamper = NoTamper
    /\ Len(ticks) = MaxTicks
    /\ out.kind = "ok"
    /\ ticks[2].timestamp = ticks[1].timestamp + 300
    /\ DOMAIN ticks[1].prices = Symbols
    /\ DOMAIN ticks[2].prices = {SymBB}
    /\ ticks[1].prices[SymBB] = Whole(2000)
    /\ ticks[2].prices[SymBB] = Whole(4400)

\* C2: every price of decompress(compress(ticks)) is within 1% relative
\* error of the original price of the same symbol in the same tick, also in
\* ticks in which two or more symbols change by different amounts.
C2_PricesWithinOnePercent ==
    (pc = "decompressed" /\ tamper = NoTamper /\ out.kind = "ok"
        /\ Len(out.ticks) = Len(ticks)) =>
        \A i \in DOMAIN ticks : \A sym \in DOMAIN ticks[i].prices :
            /\ sym \in DOMAIN out.ticks[i].prices
            /\ WithinOnePercent(ticks[i].prices[sym], out.ticks[i].prices[sym])

\* the last 4 bytes of a blob, read as the trailer
Trailer(b) == Crc_from_le_bytes(SubSeq(b, Len(b) - 3, Len(b)))

\* C3: for every record r produced by compress, deserialize(serialize(r))
\* succeeds and equals r in version, symbols, base_timestamp,
\* reference_frame, tick_payload, num_ticks, ref_crc and data_crc; only
\* overall_crc differs: 0 in r, the trailer value in the result.
C3_BlobRoundTrip ==
    (pc = "deserialized" /\ tamper = NoTamper) =>
        /\ parsed.kind = "ok"
        /\ parsed.rec.version = rec.rec.version
        /\ parsed.rec.symbols = rec.rec.symbols
        /\ parsed.rec.base_ts = rec.rec.base_ts
        /\ parsed.rec.ref_frame = rec.rec.ref_frame
        /\ parsed.rec.data = rec.rec.data
        /\ parsed.rec.num_ticks = rec.rec.num_ticks
        /\ parsed.rec.ref_crc = rec.rec.ref_crc
        /\ parsed.rec.data_crc = rec.rec.data_crc
        /\ rec.rec.overall_crc = NoCrc
        /\ parsed.rec.overall_crc = Trailer(blob)

C3_Witness ==
    /\ pc = "deserialized" /\ tamper = NoTamper
    /\ parsed.kind = "ok"
    /\ parsed.rec.symbols = <<SymBB, SymA>>
    /\ parsed.rec.num_ticks = MaxTicks
    /\ Len(parsed.rec.data) > 5
    /\ parsed.rec.overall_crc # NoCrc

\* C4: a serialized blob with any single bit flipped is rejected:
\* deserialize returns an error, or it succeeds and decompress on its result
\* returns an error; no flipped blob yields ticks.
C4_BitFlipRejected ==
    tamper.kind = "flip" =>
        /\ pc = "deserialized" => parsed.kind \in {"ok", "err"}
        /\ pc = "restored" => (out.kind = "err" /\ out.ticks = << >>)

C4_Witness ==
    /\ tamper.kind = "flip"
    /\ pc = "deserialized"
    /\ parsed.kind = "err"
    /\ tamper.at \div 8 = Len(blob) - 6      \* a bit of the payload
    /\ Len(rec.rec.data) >= 2

\* the fixed part of a blob: header, inner checksums, payload length, trailer
MinBlobLen == (1 + 2 + 4 + 8) + (4 + 4 + 4) + 4

\* where the symbol dictionary of blob b ends, by its length bytes
RECURSIVE DictionaryEnd(_, _, _)
DictionaryEnd(b, pos, left) ==
    IF left = 0 \/ pos >= Len(b) THEN (IF left = 0 THEN pos ELSE Len(b) + 1)
    ELSE DictionaryEnd(b, pos + 1 + b[pos + 1], left - 1)

\* where the payload of blob b ends according to its own N, symbol lengths
\* and P (section 6.1 of the wire format); past the end when a field is cut
PayloadEnd(b) ==
    IF Len(b) < 15 THEN Len(b) + 1
    ELSE LET n == b[2] + 256 * b[3]
             refs == DictionaryEnd(b, 15, n)
             lenAt == refs + 8 * n + 8
         IN IF refs > Len(b) \/ lenAt + 4 > Len(b) \/ b[lenAt + 4] >= 128
            THEN Len(b) + 1
            ELSE LET P == b[lenAt + 1] + 256 * b[lenAt + 2] + 65536 * b[lenAt + 3]
                          + 16777216 * b[lenAt + 4]
                 IN IF P > Len(b) THEN Len(b) + 1 ELSE lenAt + 4 + P

\* not a complete blob: shorter than the fixed part, or a field runs past
\* the end of the buffer
Incomplete(b) == Len(b) < MinBlobLen \/ PayloadEnd(b) > Len(b)

\* C5: deserialize returns an error value, never aborts and never returns a
\* partial record, for every byte sequence that is not a complete blob, also
\* when its last 4 bytes are the CRC-32 of the bytes before them.
C5_IncompleteBlobIsAnError ==
    (pc = "deserialized" /\ Incomplete(blob)) =>
        (parsed.kind = "err" /\ parsed.rec = NoRecord)

\* one of the inner checksums stored in record r does not match its data
InnerMismatch(r) ==
    \/ checksum(RefBytes(r.ref_frame)) # r.ref_crc
    \/ checksum(r.data) # r.data_crc

MismatchErrors == {"Reference checksum mismatch", "Data checksum mismatch"}

\* C6: the inner checksums are checked by decompress and not by
\* deserialize: a blob with a matching trailer whose stored ref_crc or
\* data_crc does not match is parsed, both values stored verbatim, and
\* decompress on that record, as on a record altered after compress, returns
\* a checksum-mismatch error and no ticks.
C6_InnerCrcCheckedAtDecompress ==
    /\ (pc \in {"deserialized", "restored"} /\ tamper.kind = "forge") =>
            /\ parsed.kind = "ok"
            /\ parsed.rec.ref_crc = rec.rec.ref_crc
            /\ parsed.rec.data_crc = rec.rec.data_crc
    /\ (pc = "restored" /\ InnerMismatch(parsed.rec)) =>
            (out.kind = "err" /\ out.msg \in MismatchErrors /\ out.ticks = << >>)
    /\ (pc = "decompressed" /\ tamper.kind = "alter") =>
            (out.kind = "err" /\ out.msg \in MismatchErrors /\ out.ticks = << >>)

C6_Witness ==
    /\ pc = "restored" /\ tamper.kind = "forge"
    /\ parsed.kind = "ok"
    /\ parsed.rec.ref_crc = checksum(RefBytes(parsed.rec.ref_frame))
    /\ parsed.rec.data_crc # checksum(parsed.rec.data)
    /\ Len(parsed.rec.data) > 0
    /\ out.msg = "Data checksum mismatch"

\* C7: whenever decompress succeeds on a record, the vector it returns has
\* exactly num_ticks ticks, also for a record rebuilt by deserialize, whose
\* num_ticks field and payload are independent inputs.
C7_DecompressReturnsNumTicks ==
    /\ (pc = "restored" /\ out.kind = "ok") =>
            Len(out.ticks) = parsed.rec.num_ticks
    /\ (pc = "decompressed" /\ out.kind = "ok") =>
            Len(out.ticks) = rec.rec.num_ticks

\* the number of bytes a variant occupies
FrameLen(enc) == CASE enc.tag = "Tiny" -> 1 [] enc.tag = "Small" -> 2 [] OTHER -> 5

\* C8: from_basis selects the narrowest variant that fits, encode appends
\* exactly 1, 2 or 5 bytes, and decode at the start of those bytes returns a
\* value whose to_basis is the original and advances the cursor by exactly
\* the number of bytes appended.
C8_DeltaCodecRoundTrip ==
    /\ variant # NoVariant =>
            /\ to_basis(variant) = basis
            /\ variant.tag =
                 (IF basis >= -8 /\ basis <= 7 THEN "Tiny"
                  ELSE IF basis >= -8192 /\ basis <= 8191 THEN "Small"
                  ELSE "Large")
    /\ Len(frame) > cursor => Len(frame) = cursor + FrameLen(variant)
    /\ decoded # NoDecode =>
            /\ decoded.kind = "ok"
            /\ to_basis(decoded.enc) = basis
            /\ decoded.pos = cursor + FrameLen(variant)
            /\ decoded.pos = Len(frame)

C8_Witness ==
    /\ decoded.kind = "ok"
    /\ basis = -8192
    /\ decoded.enc = Small(-8192)
    /\ cursor = 1 /\ decoded.pos = 3

\* C9: compress returns the empty-input error exactly when the series is
\* empty; otherwise a record with version 1, num_ticks the series length,
\* base_timestamp the first tick's timestamp and overall_crc 0.
C9_CompressResult ==
    pc # "start" =>
        /\ rec.kind = "err" <=> ticks = << >>
        /\ rec.kind = "err" => rec.msg = "Empty tick data"
        /\ ticks # << >> =>
            /\ rec.kind = "ok"
            /\ rec.rec.version = 1
            /\ rec.rec.num_ticks = Len(ticks)
            /\ rec.rec.base_ts = ticks[1].timestamp
            /\ rec.rec.overall_crc = NoCrc

C9_Witness ==
    /\ pc = "failed"
    /\ ticks = << >>
    /\ rec.kind = "err"

\* The reference CRC-32, bit by bit on a register of 32 bits (bit 1 the
\* least significant): reflected polynomial 0xEDB88320, initial register
\* 0xFFFFFFFF, final complement.
RefPolyBits ==
    <<0,0,0,0,0,1,0,0, 1,1,0,0,0,0,0,1, 0,0,0,1,1,1,0,1, 1,0,1,1,0,1,1,1>>

BitsOfByte(x) == [k \in 1..8 |-> (x \div Pow2(k - 1)) % 2]

RECURSIVE RefShift(_, _)
RefShift(reg, k) ==
    IF k = 0 THEN reg
    ELSE LET shifted == [j \in 1..32 |-> IF j = 32 THEN 0 ELSE reg[j + 1]]
         IN RefShift(IF reg[1] = 1
                     THEN [j \in 1..32 |-> (shifted[j] + RefPolyBits[j]) % 2]
                     ELSE shifted,
                     k - 1)

RECURSIVE RefCrcLoop(_, _, _)
RefCrcLoop(reg, data, k) ==
    IF k > Len(data) THEN reg
    ELSE LET bits == BitsOfByte(data[k])
             mixed == [j \in 1..32 |-> IF j <= 8 THEN (reg[j] + bits[j]) % 2 ELSE reg[j]]
         IN RefCrcLoop(RefShift(mixed, 8), data, k + 1)

RECURSIVE DigitOf(_, _, _)
DigitOf(reg, from, k) ==
    IF k = 8 THEN 0 ELSE reg[from + k] * Pow2(k) + DigitOf(reg, from, k + 1)

RefCrc32(data) ==
    LET reg == RefCrcLoop([j \in 1..32 |-> 1], data, 1)
        inv == [j \in 1..32 |-> 1 - reg[j]]
    IN U32(DigitOf(inv, 25, 0), DigitOf(inv, 17, 0), DigitOf(inv, 9, 0), DigitOf(inv, 1, 0))

\* C10: checksum is the reflected CRC-32 (polynomial 0xEDB88320, initial
\* register 0xFFFFFFFF, final NOT): its table-driven result equals the
\* bit-by-bit reference on every byte sequence, and
\* checksum([0xC0, 0xFF, 0xEE]) is 0xBA787D5F.
C10_ChecksumIsCrc32 ==
    crcSum # NoSum =>
        /\ crcSum = RefCrc32(crcData)
        /\ crcData = TestVector => crcSum = U32(186, 120, 125, 95)

C10_Witness ==
    /\ crcData = TestVector
    /\ crcSum = U32(186, 120, 125, 95)

----------------------------------------------------------------------------
(* The encoder's rolling state and the tick records of a payload. *)

\* prev after compress has encoded ticks[1..i] (1-based; i = 1 is the
\* reference frame)
EncoderPrev(tcks, orders, i) ==
    LET symbols == orders[1]
        ref_frame == [j \in 1..Len(symbols) |-> tcks[1].prices[symbols[j]]]
    IN CompressLoop([prev |-> ref_frame, data |-> << >>],
                    SubSeq(tcks, 1, i), orders, symbols, tcks[1].timestamp, 2).prev

\* changed and deltas of compress's loop over ticks[i].prices, i >= 2
EncoderScan(tcks, orders, i) ==
    ScanPrices([prev |-> EncoderPrev(tcks, orders, i - 1),
                changed |-> [j \in 1..Len(orders[1]) |-> FALSE],
                deltas |-> << >>],
               tcks[i], orders[i], orders[1], 1)

\* the delta_bp compress recorded for symbol index idx in ticks[i]
EncoderDelta(tcks, orders, i, idx) ==
    LET deltas == EncoderScan(tcks, orders, i).deltas
    IN deltas[CHOOSE k \in DOMAIN deltas : deltas[k][1] = idx][3]

\* the indices of the 1-bits of bitmap bm among 0..n-1, ascending
RECURSIVE SetBits(_, _, _)
SetBits(bm, n, idx) ==
    IF idx >= n THEN << >>
    ELSE (IF (bm[(idx \div 8) + 1] \div Pow2(idx % 8)) % 2 = 1 THEN <<idx>> ELSE << >>)
         \o SetBits(bm, n, idx + 1)

\* `left` delta frames read from data at pos: their values, and where they end
RECURSIVE ReadFrames(_, _, _, _)
ReadFrames(data, pos, left, acc) ==
    IF left = 0 THEN [ok |-> TRUE, pos |-> pos, frames |-> acc]
    ELSE LET d == decode(data, pos)
         IN IF d.kind # "ok" THEN [ok |-> FALSE, pos |-> pos, frames |-> acc]
            ELSE ReadFrames(data, d.pos, left - 1, Append(acc, to_basis(d.enc)))

\* the payload read as tick records of n symbols: a 4-byte timestamp delta,
\* a bitmap of ceil(n/8) bytes and one frame per 1-bit; ok when the records
\* tile the payload exactly
RECURSIVE ReadRecords(_, _, _, _)
ReadRecords(data, n, pos, acc) ==
    LET bm_bytes == (n + 7) \div 8
    IN  IF pos = Len(data) THEN [ok |-> TRUE, recs |-> acc]
        ELSE IF pos + 4 + bm_bytes > Len(data) THEN [ok |-> FALSE, recs |-> acc]
        ELSE
        LET bm == SubSeq(data, pos + 5, pos + 4 + bm_bytes)
            bits == SetBits(bm, n, 0)
            fr == ReadFrames(data, pos + 4 + bm_bytes, Len(bits), << >>)
        IN  IF ~fr.ok THEN [ok |-> FALSE, recs |-> acc]
            ELSE ReadRecords(data, n, fr.pos,
                    Append(acc, [ts_delta |-> U32_from_le_bytes(SubSeq(data, pos + 1, pos + 4)),
                                 bm |-> bm, bits |-> bits, frames |-> fr.frames,
                                 size |-> fr.pos - pos]))

\* C11: in every tick record compress writes, the k-th delta frame after
\* the bitmap is the delta of the symbol whose index is the k-th set bit of
\* the bitmap, whatever the iteration order of that tick's price map.
C11_FramesInAscendingIndexOrder ==
    (pc = "compressed" /\ rec.kind = "ok") =>
        LET rd == ReadRecords(rec.rec.data, Len(rec.rec.symbols), 0, << >>)
        IN  /\ rd.ok
            /\ Len(rd.recs) = Len(ticks) - 1
            /\ \A j \in DOMAIN rd.recs : \A k \in DOMAIN rd.recs[j].bits :
                  rd.recs[j].frames[k] =
                      EncoderDelta(ticks, iter, j + 1, rd.recs[j].bits[k])

\* C12: after compress has encoded tick i, its rolling vector prev equals,
\* for every symbol index, the price decompress reconstructs for tick i
\* (the decoder's curr after tick i).
C12_EncoderTracksDecoder ==
    (pc = "decompressed" /\ tamper = NoTamper /\ out.kind = "ok"
        /\ Len(out.ticks) = Len(ticks)) =>
        \A i \in DOMAIN ticks : \A j \in DOMAIN rec.rec.symbols :
            EncoderPrev(ticks, iter, i)[j] = out.ticks[i].prices[rec.rec.symbols[j]]

----------------------------------------------------------------------------
(* decode on its own: any buffer, any cursor. *)

MaxBufLen == 6

\* one first byte per tag: 00 (Tiny), 01 (Small), 10 and 11 (Large)
DecodeBytes == {15, 127, 128, 192}

InitDecode ==
    /\ PipeIdle /\ CrcIdle
    /\ basis = 0
    /\ variant = NoVariant
    /\ frame \in SeqsUpTo(DecodeBytes, MaxBufLen)
    /\ cursor \in 0..Len(frame)
    /\ decoded = NoDecode

\* DeltaEncoding::decode(&buf, &mut pos)
DecodeAt ==
    /\ decoded = NoDecode
    /\ decoded' = decode(frame, cursor)
    /\ UNCHANGED <<basis, variant, frame, cursor, pipeVars, crcVars>>

NextDecode == DecodeAt

SpecDecode == InitDecode /\ [][NextDecode]_vars

\* the bytes the variant tagged by first byte b occupies
BytesNeeded(b) ==
    CASE b \div 64 = 0 -> 1
      [] b \div 64 = 1 -> 2
      [] OTHER -> 5

\* C13: decode returns the underrun error exactly when fewer bytes remain
\* from the cursor than the variant tagged by the first byte needs (1 for
\* tag 00, 2 for tag 01, 5 for tags 10 and 11); a Large frame in exactly the
\* last 5 bytes and a Small frame in exactly the last 2 bytes decode.
C13_UnderrunExactly ==
    decoded # NoDecode =>
        LET remaining == Len(frame) - cursor
            need == IF remaining = 0 THEN 1 ELSE BytesNeeded(frame[cursor + 1])
        IN  /\ decoded.kind \in {"ok", "err"}
            /\ decoded.kind = "err" <=> remaining < need
            /\ decoded.kind = "ok" => decoded.pos = cursor + need

C13_Witness ==
    /\ Len(frame) = 6
    /\ cursor = 1
    /\ frame[2] = 192
    /\ decoded.kind = "ok"
    /\ decoded.enc.tag = "Large"
    /\ decoded.pos = Len(frame)

----------------------------------------------------------------------------
(* The layout of the tick payload. *)

\* the symbol indices of ticks[i] whose rounded basis-point delta against
\* the encoder's prev is non-zero, ascending
ChangedIndices(tcks, orders, i) ==
    LET symbols == orders[1]
        before == EncoderPrev(tcks, orders, i - 1)
        moved(idx) ==
            /\ symbols[idx + 1] \in DOMAIN tcks[i].prices
            /\ DeltaBp(tcks[i].prices[symbols[idx + 1]], before[idx + 1]) # 0
        pick[idx \in 0..Len(symbols)] ==
            IF idx = Len(symbols) THEN << >>
            ELSE (IF moved(idx) THEN <<idx>> ELSE << >>) \o pick[idx + 1]
    IN pick[0]

\* C14: in the payload of every record compress produces, each tick record
\* is a 4-byte timestamp delta, a bitmap of ceil(N/8) bytes and exactly as
\* many delta frames as the bitmap has 1-bits; a tick in which no symbol's
\* rounded delta is non-zero contributes exactly 4 + ceil(N/8) bytes, with
\* an all-zero bitmap and no frame.
C14_PayloadLayout ==
    (pc = "compressed" /\ rec.kind = "ok") =>
        LET n == Len(rec.rec.symbols)
            bm_bytes == (n + 7) \div 8
            rd == ReadRecords(rec.rec.data, n, 0, << >>)
        IN  /\ rd.ok
            /\ Len(rd.recs) = Len(ticks) - 1
            /\ \A j \in DOMAIN rd.recs :
                LET r == rd.recs[j]
                    moved == ChangedIndices(ticks, iter, j + 1)
                IN  /\ r.ts_delta = ticks[j + 1].timestamp - ticks[1].timestamp
                    /\ Len(r.bm) = bm_bytes
                    /\ r.bits = moved
                    /\ Len(r.frames) = Len(moved)
                    /\ moved = << >> =>
                        /\ r.size = 4 + bm_bytes
                        /\ \A b \in DOMAIN r.bm : r.bm[b] = 0

C14_Witness ==
    /\ pc = "compressed" /\ rec.kind = "ok"
    /\ Len(ticks) = MaxTicks
    /\ DOMAIN ticks[1].prices = Symbols
    /\ \A i \in 2..Len(ticks) : ticks[i].prices = ticks[1].prices
    /\ Len(rec.rec.data) = (MaxTicks - 1) * 5
    /\ \A i \in 1..(MaxTicks - 1) : rec.rec.data[5 * i] = 0

----------------------------------------------------------------------------
(* A series of one tick. *)

\* the payload length P of a blob: the 4 bytes before an empty payload and
\* the trailer
LengthField(b) == U32_from_le_bytes(SubSeq(b, Len(b) - 7, Len(b) - 4))

\* C15: for every 1-tick series, compress returns a record with num_ticks 1
\* and an empty tick payload (serialized with P = 0), and decompress of that
\* record returns exactly one tick, with the input timestamp and exactly the
\* input prices.
C15_SingleTick ==
    (Len(ticks) = 1 /\ pc # "start") =>
        /\ rec.kind = "ok"
        /\ rec.rec.num_ticks = 1
        /\ rec.rec.data = << >>
        /\ pc \in {"serialized", "deserialized", "restored"} =>
                (LengthField(blob) = 0 /\ Len(blob) =
                    Len(SerializeBody([rec.rec EXCEPT !.data = << >>])) + 4)
        /\ pc \in {"decompressed", "restored"} =>
                /\ out.kind = "ok"
                /\ Len(out.ticks) = 1
                /\ out.ticks[1].timestamp = ticks[1].timestamp
                /\ DOMAIN out.ticks[1].prices = DOMAIN ticks[1].prices
                /\ \A sym \in DOMAIN ticks[1].prices :
                        out.ticks[1].prices[sym] = ticks[1].prices[sym]

C15_Witness ==
    /\ Len(ticks) = 1
    /\ pc = "decompressed"
    /\ out.kind = "ok"
    /\ Len(out.ticks) = 1
    /\ DOMAIN ticks[1].prices = Symbols
    /\ ticks[1].prices[SymA] = Whole(2001)
    /\ ticks[1].prices[SymBB] = Whole(4400)
    /\ iter[1] = <<SymBB, SymA>>

====
